---- MODULE Spec2Model ----
(***************************************************************************)
(* Webhook intent-routing pipeline of the cafs backend:                    *)
(*   routes/webhook.py            create_webhook (POST /webhooks)          *)
(*   services/webhook/webhook.py  WebhookService                           *)
(*   services/conversation/conversation.py  ConversationService            *)
(*   services/webhook/inventory.py          InventoryService               *)
(*   services/zalo/zalo_interaction.py      ZaloInteractionService         *)
(*   services/zalo/zalo_parser.py           ZaloParser                     *)
(* Spec     : one webhook request at a time, step by step.                 *)
(* SpecUnit : direct calls of the public methods with enumerated inputs.   *)
(* SpecConc : deliveries in flight together, interleaved at their awaits.   *)
(* SpecOAuth: routes/zalo_oauth.py, the login and callback routes.         *)
(* SpecFile : zalo_encrypted_token.py, concurrent store_tokens/get_tokens. *)
(* SpecIndex: a product sync running beside a stock check or search.       *)
(***************************************************************************)
EXTENDS Integers, Sequences, FiniteSets, TLC

VARIABLES
    secret,         \* settings.WEBHOOK_SECRET_KEY
    accessToken,    \* ZaloInteractionService._access_token
    tokenExpiry,    \* ZaloInteractionService._token_expiry (hours)
    now,            \* datetime.now() in hours
    webhooks,       \* number of rows of table webhook
    conversations,  \* rows of table zalo_conversations
    pc,             \* position of the request being handled
    req,            \* the HTTP request: raw body and X-Webhook-Signature
    conv,           \* conversation_result of process_conversation
    result,         \* result dict of process_webhook
    resp,           \* HTTP status answered (0: none yet)
    log,            \* side effects of the request being handled, in order
    nReq,           \* requests received so far
    call,           \* SpecUnit: the last direct call and what it returned
    tasks,          \* SpecConc: the deliveries in flight, one task each
    session,        \* SpecOAuth: request.session of the browser doing the OAuth login
    disk,           \* SpecFile: content of each inode of the file system
    file,           \* SpecFile: inode of secure_tokens.enc (0: no such file)
    tmp,            \* SpecFile: inode of secure_tokens.enc.tmp (0: no such file)
    writers,        \* SpecFile: position of each store_tokens call
    seen,           \* SpecFile: what the last get_tokens call read
    items,          \* SpecIndex: products in the Item Store
    index,          \* SpecIndex: the Elasticsearch index "products"
    syncPc,         \* SpecIndex: position of sync_products_to_elasticsearch
    lookup          \* SpecIndex: the last stock check or product search

oauthVars == <<session>>
fileVars == <<disk, file, tmp, writers, seen>>
indexVars == <<items, index, syncPc, lookup>>

vars == <<secret, accessToken, tokenExpiry, now, webhooks, conversations,
          pc, req, conv, result, resp, log, nReq, call, tasks,
          oauthVars, fileVars, indexVars>>

----------------------------------------------------------------------------
(* Bounds *)

MaxRequests == 2
MaxTicks == 2
MaxQuantity == 2
MaxPrice == 2

----------------------------------------------------------------------------
(* Values *)

None == "None"

Secrets == {"s1", "s2"}

\* app/api/constants/actions.py (imported by webhook.py and inventory.py)
CHECK_STOCK_LEVELS == "CHECK_STOCK_LEVELS"
CREATE_RECEIPT == "CREATE_RECEIPT"
UPDATE_STOCK_QUANTITIES == "UPDATE_STOCK_QUANTITIES"
ADD_NEW_ITEMS == "ADD_NEW_ITEMS"
UPDATE_ITEM == "UPDATE_ITEM"
SEARCH_PRODUCTS == "SEARCH_PRODUCTS"
NORMAL_CONVERSATION == "NORMAL_CONVERSATION"

\* the labels the classifier prompt enumerates
IntentLabels ==
    {CHECK_STOCK_LEVELS, CREATE_RECEIPT, UPDATE_STOCK_QUANTITIES,
     ADD_NEW_ITEMS, UPDATE_ITEM, SEARCH_PRODUCTS, NORMAL_CONVERSATION}

\* what the LLM may put under "intent": a label, another string, or nothing
KindValues == IntentLabels \cup {"Checking stock levels", None}

\* timedelta(hours=24)
TokenHours == 24

\* the clock is read every 12 hours
TickHours == 12

----------------------------------------------------------------------------
(* Request bodies and signatures *)

EventNames == {"user_send_group_text", "user_send_group_image", None}
Texts == {None, "", "xin chao"}
Groups == {None, "G1"}

\* a body that is not JSON carries no fields
BadBody == [json |-> FALSE, event |-> None, text |-> None, group |-> None]

Bodies ==
    {BadBody} \cup [json : {TRUE}, event : EventNames, text : Texts, group : Groups]

\* the same body with one byte changed
Mutated(b) == [b EXCEPT !.group = IF b.group = None THEN "G1" ELSE None]

\* hmac.new(key, msg, sha256).hexdigest(): an ideal MAC, one digest per (key, msg)
Hmac(key, msg) == [kind |-> "mac", key |-> key, msg |-> msg]

NoSignature == [kind |-> "missing", key |-> None, msg |-> BadBody]
EmptySignature == [kind |-> "empty", key |-> None, msg |-> BadBody]
GarbageSignature == [kind |-> "garbage", key |-> None, msg |-> BadBody]

\* header values tried with body b
SignaturesFor(b) ==
    {NoSignature, EmptySignature, GarbageSignature}
        \cup {Hmac(s, m) : s \in Secrets, m \in {b, Mutated(b)}}

\* Python truthiness of the header value: None and "" are falsy
Truthy(sig) == sig.kind \notin {"missing", "empty"}

VerifySignature_KeyOnly(payload, signature) ==
    IF secret = None
    THEN TRUE
    ELSE signature.kind = "mac" /\ signature.key = secret

\* WebhookService.verify_signature
VerifySignature(payload, signature) ==
    IF secret = None
    THEN TRUE
    ELSE Hmac(secret, payload) = signature

\* BaseWebhookService.verify_signature
BaseVerifySignature(payload, signature) ==
    IF secret = None
    THEN TRUE
    ELSE Hmac(secret, payload) = signature

----------------------------------------------------------------------------
(* Language Model Client and Intent Classifier *)

\* a JSON value as json.loads returns it; kind, params, extra and error only
\* mean something for an object: kind is the value under "intent", params says
\* whether "parameters" is a map, absent or something else, extra says whether
\* the object has other keys, error whether it has the key "error"
JsonObject(kind, params, extra, error) ==
    [tag |-> "obj", kind |-> kind, params |-> params, extra |-> extra, error |-> error]

JsonScalar(tag) ==
    [tag |-> tag, kind |-> None, params |-> "absent", extra |-> FALSE, error |-> FALSE]

ParamShapes == {"map", "absent", "notmap"}

JsonObjects ==
    {JsonObject(k, p, FALSE, FALSE) : k \in KindValues, p \in ParamShapes}
        \cup {JsonObject(None, "absent", TRUE, FALSE)}

JsonValues == JsonObjects \cup {JsonScalar("list"), JsonScalar("str"), JsonScalar("null")}

\* the text of a completion: empty, not JSON, or a JSON document, possibly
\* wrapped in a ```json fence
LlmTexts ==
    [fence : BOOLEAN, syntax : {"empty", "garbage"}, value : {JsonScalar("null")}]
        \cup [fence : BOOLEAN, syntax : {"json"}, value : JsonValues]

\* LLMService.query: returns a string or raises
LlmOutcomes ==
    {[raises |-> TRUE, text |-> [fence |-> FALSE, syntax |-> "empty", value |-> JsonScalar("null")]]}
        \cup [raises : {FALSE}, text : LlmTexts]

\* the reply generated for a normal conversation
ReplyOutcomes == {"raise", "", "chao ban"}

Returned(v) == [raised |-> FALSE, value |-> v]
Raised == [raised |-> TRUE, value |-> JsonScalar("null")]

\* response.replace("```json", "").replace("```", "").strip()
CleanResponse(text) == [text EXCEPT !.fence = FALSE]

\* json.loads
JsonLoads(text) ==
    IF text.fence \/ text.syntax # "json"
    THEN Raised
    ELSE Returned(text.value)

\* {"intent": None, "parameters": {}, "error": str(e)}
ErrorIntent == JsonObject(None, "map", FALSE, TRUE)

\* the body of the try block of analyze_intent
AnalyzeIntentTry(llm) ==
    IF llm.raises
    THEN Raised
    ELSE JsonLoads(CleanResponse(llm.text))

AnalyzeIntent_NoCatch(llm) == AnalyzeIntentTry(llm)

\* ConversationService.analyze_intent
AnalyzeIntent(llm) ==
    LET r == AnalyzeIntentTry(llm)
    IN  IF r.raised THEN Returned(ErrorIntent) ELSE r

\* bool(d) of a Python value: {} and None are falsy
TruthyJson(v) ==
    CASE v.tag = "null" -> FALSE
      [] v.tag = "obj" -> v.kind # None \/ v.params # "absent" \/ v.extra \/ v.error
      [] OTHER -> TRUE

----------------------------------------------------------------------------
(* Action Dispatcher and Inventory Action Handlers *)

HandlerNames ==
    {"check_stock", "create_receipt", "update_stock", "add_item", "update_item",
     "search_product", "normal_conversation"}

\* the dict handlers of InventoryService.handle_inventory_action
Handlers ==
    [k \in IntentLabels |->
        CASE k = CHECK_STOCK_LEVELS -> "check_stock"
          [] k = CREATE_RECEIPT -> "create_receipt"
          [] k = UPDATE_STOCK_QUANTITIES -> "update_stock"
          [] k = ADD_NEW_ITEMS -> "add_item"
          [] k = UPDATE_ITEM -> "update_item"
          [] k = SEARCH_PRODUCTS -> "search_product"
          [] k = NORMAL_CONVERSATION -> "normal_conversation"]

\* what the calls of the two real handlers do: parse is the outcome of
\* LLMService.parse_product_query (asked by search_product only), backend
\* what the Elasticsearch client does with the search
SearchOutcomes == [parse : {"ok", "error"}, backend : {"hits", "nohits", "raise"}]

NoSearch == [parse |-> "error", backend |-> "raise"]

NoOpResult ==
    [action |-> None, status |-> None, message |-> "No inventory action required"]

\* ElasticSearchService.search_products: an exception of the client is
\* logged and answered with an empty SearchResult
SearchProducts(backend) == IF backend = "hits" THEN "hits" ELSE "nohits"

\* the _source of a hit as _format_stock_items reads it: "quantity" and
\* "reorder_point" may be missing
HitSources ==
    {h \in [has_quantity : BOOLEAN, quantity : -1..MaxQuantity,
            has_reorder : BOOLEAN, reorder_point : 0..MaxQuantity] :
        /\ ~h.has_quantity => h.quantity = 0
        /\ ~h.has_reorder => h.reorder_point = 0}

\* int(source.get("quantity", 0)) and int(source.get("reorder_point", 0))
SourceQuantity(source) == IF source.has_quantity THEN source.quantity ELSE 0
SourceReorderPoint(source) == IF source.has_reorder THEN source.reorder_point ELSE 0

StockStatus_StrictlyBelow(source) ==
    IF SourceQuantity(source) = 0
    THEN "Het hang"
    ELSE IF SourceQuantity(source) < SourceReorderPoint(source)
    THEN "Sap het hang"
    ELSE "Con hang"

\* stock_status of InventoryService._format_stock_items ("Hết hàng",
\* "Sắp hết hàng", "Còn hàng", written here without diacritics)
StockStatus(source) ==
    IF SourceQuantity(source) = 0
    THEN "Het hang"
    ELSE IF SourceQuantity(source) <= SourceReorderPoint(source)
    THEN "Sap het hang"
    ELSE "Con hang"

\* InventoryService.check_stock
CheckStock(params, search) ==
    IF params = "notmap" \/ search.backend = "raise"
    THEN [action |-> "check_stock", status |-> "error", message |-> "error"]
    ELSE IF search.backend = "nohits"
    THEN [action |-> "check_stock", status |-> "success", message |-> "not found"]
    ELSE [action |-> "check_stock", status |-> "success", message |-> "items"]

\* InventoryService.search_product
SearchProduct(params, search) ==
    IF params = "notmap" \/ search.parse = "error"
    THEN [action |-> "search_product", status |-> "error", message |-> "error"]
    ELSE IF SearchProducts(search.backend) = "nohits"
    THEN [action |-> "search_product", status |-> "success", message |-> "not found"]
    ELSE [action |-> "search_product", status |-> "success", message |-> "items"]

\* the handlers of InventoryService: none of them raises; the stubs echo
\* their parameters
RunHandler(h, params, search) ==
    CASE h = "check_stock" -> CheckStock(params, search)
      [] h = "search_product" -> SearchProduct(params, search)
      [] OTHER -> [action |-> h, status |-> "success", message |-> None]

HandleInventoryAction_FirstHandler(intent, search) ==
    IF intent.kind = None
    THEN [handler |-> None, result |-> NoOpResult]
    ELSE [handler |-> "check_stock",
          result |-> RunHandler("check_stock", intent.params, search)]

\* InventoryService.handle_inventory_action
HandleInventoryAction(intent, search) ==
    LET handler == IF intent.kind \in DOMAIN Handlers THEN Handlers[intent.kind] ELSE None
    IN  IF handler = None
        THEN [handler |-> None, result |-> NoOpResult]
        ELSE [handler |-> handler, result |-> RunHandler(handler, intent.params, search)]

\* the "price" entry of the search parameters the product-query LLM returns:
\* a bare number, or a dict with an operator; lo and hi are the dict's "min"
\* and "max", -1 when the key is missing
PriceExprs ==
    [shape : {"number"}, operator : {None}, value : 0..MaxPrice, lo : {-1}, hi : {-1}]
        \cup [shape : {"dict"}, operator : {"<", ">"}, value : 0..MaxPrice,
              lo : {-1}, hi : {-1}]
        \cup [shape : {"dict"}, operator : {"between"}, value : {0},
              lo : -1..MaxPrice, hi : -1..MaxPrice]

\* LLMService.parse_product_query, "Handle price formatting"
TransformPrice(p) ==
    IF p.shape = "dict" THEN p ELSE [p EXCEPT !.shape = "dict", !.operator = "="]

NoRange == [has_min |-> FALSE, min |-> 0, has_max |-> FALSE, max |-> 0]

\* SearchParams.from_parsed_params: price_range; NoRange is price_range None
FromParsedParams(p) ==
    IF p.shape # "dict" THEN NoRange
    ELSE IF p.operator = "<" THEN [NoRange EXCEPT !.has_max = TRUE, !.max = p.value]
    ELSE IF p.operator = ">" THEN [NoRange EXCEPT !.has_min = TRUE, !.min = p.value]
    ELSE IF p.operator = "between"
         THEN [has_min |-> TRUE, min |-> IF p.lo = -1 THEN 0 ELSE p.lo,
               has_max |-> TRUE, max |-> IF p.hi = -1 THEN 0 ELSE p.hi]
    ELSE NoRange

\* QueryBuilder.build_search_query, "Price range handling": the range filter
\* on price, none when price_range is None
BuildSearchQuery(range) ==
    [filtered |-> range.has_min \/ range.has_max,
     has_gte |-> range.has_min, gte |-> range.min,
     has_lte |-> range.has_max, lte |-> range.max]

----------------------------------------------------------------------------
(* Outbound Responder *)

Tokens == {"T1", "T2"}

\* what the OAuth endpoint does with a refresh request: no connection, an
\* HTTP error status, a 200 without access_token, or a 200 with a token
OAuthOutcomes == {"neterr", "httperr", "notoken"} \cup Tokens

\* what the provider does with a send: 0 is no connection, else the status
SendOutcomes == {0, 200, 401, 500}

\* the provider for one send_group_message call; what it would do with a
\* second refresh and a second send is told apart only after a first 401
Scripts ==
    {s \in [oauth1 : OAuthOutcomes, send1 : SendOutcomes,
            oauth2 : OAuthOutcomes, send2 : SendOutcomes] :
        s.send1 # 401 => (s.oauth2 = "neterr" /\ s.send2 = 0)}

\* json.dumps(response) of line 47: a requests.Response is not JSON
\* serializable, the encoder raises TypeError
JsonDumpsRaises == TRUE

GetAccessToken_ExpiryNotCleared(tok, exp, t, oauth) ==
    IF tok # None /\ exp # -1 /\ t < exp
    THEN [ok |-> TRUE, token |-> tok, tok |-> tok, exp |-> exp, refreshes |-> 0]
    ELSE IF oauth = "neterr" \/ JsonDumpsRaises \/ oauth \notin Tokens
         THEN [ok |-> FALSE, token |-> None, tok |-> None, exp |-> t + TokenHours,
               refreshes |-> 1]
         ELSE [ok |-> TRUE, token |-> oauth, tok |-> oauth, exp |-> t + TokenHours,
               refreshes |-> 1]

\* ZaloInteractionService._get_access_token: ok, the token returned, the
\* cache afterwards and the number of refresh requests issued
GetAccessToken(tok, exp, t, oauth) ==
    IF tok # None /\ exp # -1 /\ t < exp
    THEN [ok |-> TRUE, token |-> tok, tok |-> tok, exp |-> exp, refreshes |-> 0]
    ELSE IF oauth = "neterr" \/ JsonDumpsRaises \/ oauth \notin Tokens
         THEN [ok |-> FALSE, token |-> None, tok |-> None, exp |-> -1, refreshes |-> 1]
         ELSE [ok |-> TRUE, token |-> oauth, tok |-> oauth, exp |-> t + TokenHours,
               refreshes |-> 1]

SendGroupMessage_ExpiryLeft(tok, exp, t, script) ==
    LET g1 == GetAccessToken(tok, exp, t, script.oauth1)
    IN  [ok |-> g1.ok /\ script.send1 = 200,
         sends |-> IF g1.ok THEN <<script.send1>> ELSE <<>>,
         refreshes1 |-> g1.refreshes, refreshes2 |-> 0,
         tok |-> g1.tok, exp |-> t + TokenHours]

\* ZaloInteractionService.send_group_message: ok, the statuses of the sends
\* made, the refresh requests issued before and after the first send, and
\* the cache afterwards
SendGroupMessage(tok, exp, t, script) ==
    LET g1 == GetAccessToken(tok, exp, t, script.oauth1)
        g2 == GetAccessToken(None, -1, t, script.oauth2)
    IN  IF ~g1.ok
        THEN [ok |-> FALSE, sends |-> <<>>, refreshes1 |-> g1.refreshes,
              refreshes2 |-> 0, tok |-> g1.tok, exp |-> g1.exp]
        ELSE IF script.send1 = 0
        THEN [ok |-> FALSE, sends |-> <<0>>, refreshes1 |-> g1.refreshes,
              refreshes2 |-> 0, tok |-> g1.tok, exp |-> g1.exp]
        ELSE IF script.send1 # 401
        THEN [ok |-> script.send1 = 200, sends |-> <<script.send1>>,
              refreshes1 |-> g1.refreshes, refreshes2 |-> 0,
              tok |-> g1.tok, exp |-> g1.exp]
        ELSE IF ~g2.ok
        THEN [ok |-> FALSE, sends |-> <<401>>, refreshes1 |-> g1.refreshes,
              refreshes2 |-> g2.refreshes, tok |-> g2.tok, exp |-> g2.exp]
        ELSE [ok |-> script.send2 = 200, sends |-> <<401, script.send2>>,
              refreshes1 |-> g1.refreshes, refreshes2 |-> g2.refreshes,
              tok |-> g2.tok, exp |-> g2.exp]

----------------------------------------------------------------------------
(* Payload Parser and conversation processing *)

\* ZaloParser.parse_message: event_type, message_text and group_id
ParseMessage(body) ==
    [event_type |-> IF body.event = None THEN "unknown" ELSE body.event,
     message_text |-> body.text,
     group_id |-> body.group]

HasText_AnyEvent(event_type) == event_type # "unknown"

\* "text" in event_type
HasText(event_type) == event_type = "user_send_group_text"

EmptyDict == JsonObject(None, "absent", FALSE, FALSE)

NoConv ==
    [raised |-> FALSE, effects |-> <<>>, analysed |-> FALSE, intent |-> EmptyDict,
     response_text |-> None, group_id |-> None, conversation_id |-> 0]

ProcessConversation_StoreIgnored(parsed, llm, reply, store, nextId) ==
    LET classify == HasText(parsed.event_type) /\ parsed.message_text \notin {None, ""}
        a == AnalyzeIntent(llm)
        normal == classify /\ ~a.raised /\ a.value.tag = "obj"
                    /\ a.value.kind = NORMAL_CONVERSATION
        e1 == IF ~classify THEN <<>>
              ELSE IF AnalyzeIntentTry(llm).raised
                   THEN <<"llm_classify", "classify_error">>
                   ELSE <<"llm_classify">>
        e2 == IF normal THEN e1 \o <<"llm_reply">> ELSE e1
    IN  IF classify /\ (a.raised \/ a.value.tag # "obj")
        THEN [NoConv EXCEPT !.raised = TRUE, !.effects = e1]
        ELSE IF normal /\ reply = "raise"
        THEN [NoConv EXCEPT !.raised = TRUE, !.effects = e2]
        ELSE [raised |-> FALSE,
              effects |-> e2 \o <<IF store = "ok" THEN "conv_record" ELSE "conv_record_failed">>,
              analysed |-> classify,
              intent |-> IF classify THEN a.value ELSE EmptyDict,
              response_text |-> IF normal THEN reply ELSE None,
              group_id |-> parsed.group_id,
              conversation_id |-> nextId]

\* ConversationService.process_conversation with store_conversation: llm and
\* reply are what the two LLM calls do, store what the database write does;
\* "classify_error" is the logger.error of analyze_intent's except branch
ProcessConversation(parsed, llm, reply, store, nextId) ==
    LET classify == HasText(parsed.event_type) /\ parsed.message_text \notin {None, ""}
        a == AnalyzeIntent(llm)
        normal == classify /\ ~a.raised /\ a.value.tag = "obj"
                    /\ a.value.kind = NORMAL_CONVERSATION
        e1 == IF ~classify THEN <<>>
              ELSE IF AnalyzeIntentTry(llm).raised
                   THEN <<"llm_classify", "classify_error">>
                   ELSE <<"llm_classify">>
        e2 == IF normal THEN e1 \o <<"llm_reply">> ELSE e1
    IN  IF classify /\ (a.raised \/ a.value.tag # "obj")
        THEN [NoConv EXCEPT !.raised = TRUE, !.effects = e1]
        ELSE IF normal /\ reply = "raise"
        THEN [NoConv EXCEPT !.raised = TRUE, !.effects = e2]
        ELSE IF store # "ok"
        THEN [NoConv EXCEPT !.raised = TRUE, !.effects = e2 \o <<"conv_record_failed">>]
        ELSE [raised |-> FALSE,
              effects |-> e2 \o <<"conv_record">>,
              analysed |-> classify,
              intent |-> IF classify THEN a.value ELSE EmptyDict,
              response_text |-> IF normal THEN reply ELSE None,
              group_id |-> parsed.group_id,
              conversation_id |-> nextId]

----------------------------------------------------------------------------
(* The rest of process_webhook: dispatch and reply *)

NoAction == [action |-> None, status |-> None, message |-> None]

NoScript == [oauth1 |-> "neterr", send1 |-> 0, oauth2 |-> "neterr", send2 |-> 0]

NoSend ==
    [ok |-> FALSE, sends |-> <<>>, refreshes1 |-> 0, refreshes2 |-> 0,
     tok |-> None, exp |-> -1]

NoResult ==
    [raised |-> FALSE, status |-> None, response_sent |-> None, error |-> FALSE,
     handler |-> None, inventory_action |-> NoAction,
     replied |-> FALSE, sent |-> NoSend]

\* the requests a send_group_message call issued, in order
SendEffects(s) ==
    (IF s.refreshes1 = 1 THEN <<"refresh">> ELSE <<>>)
        \o [i \in 1..(IF Len(s.sends) > 0 THEN 1 ELSE 0) |-> "send"]
        \o (IF s.refreshes2 = 1 THEN <<"refresh">> ELSE <<>>)
        \o [i \in 1..(IF Len(s.sends) > 1 THEN 1 ELSE 0) |-> "send"]

\* lines 128-161 of WebhookService.process_webhook with
\* handle_normal_conversation and handle_inventory_response of the responder:
\* the result, the side effects and the token cache afterwards
DispatchAndReply(c, tok, exp, t, search, script) ==
    LET final == c.intent
        truthy == TruthyJson(final)
        intent_type == IF truthy THEN final.kind ELSE None
        ha == HandleInventoryAction(final, search)
        hEff == IF ha.handler = None THEN <<>> ELSE <<"handler">>
        s == SendGroupMessage(tok, exp, t, script)
        base == [NoResult EXCEPT !.status = "success"]
        keep == [tok |-> tok, exp |-> exp]
    IN  IF truthy /\ final.params # "map"
        THEN [result |-> [NoResult EXCEPT !.raised = TRUE], effects |-> <<>>, cache |-> keep]
        ELSE IF intent_type = NORMAL_CONVERSATION
        THEN IF c.response_text \in {None, ""} \/ c.group_id = None
             THEN [result |-> [base EXCEPT !.response_sent = "false"],
                   effects |-> <<>>, cache |-> keep]
             ELSE IF s.ok
             THEN [result |-> [base EXCEPT !.response_sent = "true", !.replied = TRUE,
                                           !.sent = s],
                   effects |-> SendEffects(s), cache |-> [tok |-> s.tok, exp |-> s.exp]]
             ELSE [result |-> [NoResult EXCEPT !.raised = TRUE, !.replied = TRUE,
                                               !.sent = s],
                   effects |-> SendEffects(s), cache |-> [tok |-> s.tok, exp |-> s.exp]]
        ELSE IF intent_type \in {CHECK_STOCK_LEVELS, SEARCH_PRODUCTS}
        THEN IF c.group_id = None
             THEN [result |-> [base EXCEPT !.response_sent = "false", !.error = TRUE,
                                           !.handler = ha.handler,
                                           !.inventory_action = ha.result],
                   effects |-> hEff, cache |-> keep]
             ELSE [result |-> [base EXCEPT !.response_sent = IF s.ok THEN "true" ELSE "false",
                                           !.error = ~s.ok,
                                           !.handler = ha.handler,
                                           !.inventory_action = ha.result,
                                           !.replied = TRUE, !.sent = s],
                   effects |-> hEff \o SendEffects(s),
                   cache |-> [tok |-> s.tok, exp |-> s.exp]]
        ELSE IF truthy
        THEN [result |-> [base EXCEPT !.handler = ha.handler,
                                      !.inventory_action = ha.result],
              effects |-> hEff, cache |-> keep]
        ELSE [result |-> base, effects |-> <<>>, cache |-> keep]

----------------------------------------------------------------------------
(* State machine of POST /webhooks *)

\* a delivery before process_webhook has started on it
IdleTask == [pc |-> "idle", body |-> BadBody, conv |-> NoConv, result |-> NoResult, resp |-> 0]

StoreConversation_Overwrite(rows, request, analysed) ==
    IF rows = <<>>
    THEN <<[id |-> 1, request |-> request, analysed |-> analysed]>>
    ELSE [rows EXCEPT ![Len(rows)] =
                [id |-> Len(rows), request |-> request, analysed |-> analysed]]

\* ConversationService.store_conversation: db.add of a new row and commit
StoreConversation(rows, request, analysed) ==
    Append(rows, [id |-> Len(rows) + 1, request |-> request, analysed |-> analysed])

NoRequest == [body |-> BadBody, signature |-> NoSignature]

NoCall == [op |-> None]

NoSession ==
    [oauth_state |-> None, access_token |-> None, refresh_token |-> None,
     user_profile |-> None]

NoLookup == [handler |-> None, product |-> None, status |-> None, message |-> None]

\* nothing has been logged in, stored or indexed
OAuthIdle == session = NoSession

\* what get_tokens read: -1 is no file, 0 an empty blob, w the blob of writer w
NoRead == [read |-> FALSE, content |-> -1, clearing |-> FALSE]

FileIdle == disk = <<>> /\ file = 0 /\ tmp = 0 /\ writers = <<>> /\ seen = NoRead

IndexIdle ==
    /\ items = {}
    /\ index = [exists |-> FALSE, docs |-> {}]
    /\ syncPc = "idle"
    /\ lookup = NoLookup

Init ==
    /\ secret \in Secrets \cup {None}
    /\ accessToken = None
    /\ tokenExpiry = -1
    /\ now = 0
    /\ webhooks = 0
    /\ conversations = <<>>
    /\ pc = "idle"
    /\ req = NoRequest
    /\ conv = NoConv
    /\ result = NoResult
    /\ resp = 0
    /\ log = <<>>
    /\ nReq = 0
    /\ call = NoCall
    /\ tasks = [t \in {} |-> IdleTask]
    /\ OAuthIdle
    /\ FileIdle
    /\ IndexIdle

\* a request arrives; the previous one has been answered
Receive(body, signature) ==
    /\ pc \in {"idle", "done"}
    /\ nReq < MaxRequests
    /\ nReq' = nReq + 1
    /\ req' = [body |-> body, signature |-> signature]
    /\ pc' = "auth"
    /\ conv' = NoConv
    /\ result' = NoResult
    /\ resp' = 0
    /\ log' = <<>>
    /\ UNCHANGED <<secret, accessToken, tokenExpiry, now, webhooks, conversations, call, tasks,
                   oauthVars, fileVars, indexVars>>

\* create_webhook, lines 27-35: the signature check
Authenticate ==
    /\ pc = "auth"
    /\ IF Truthy(req.signature) /\ ~VerifySignature(req.body, req.signature)
       THEN resp' = 401 /\ pc' = "done"
       ELSE resp' = resp /\ pc' = "store_raw"
    /\ UNCHANGED <<secret, accessToken, tokenExpiry, now, webhooks, conversations,
                   req, conv, result, log, nReq, call, tasks,
                   oauthVars, fileVars, indexVars>>

StoreRawWebhook_NoRow(rowWrite) ==
    /\ pc = "store_raw"
    /\ IF ~req.body.json
       THEN /\ resp' = 500
            /\ pc' = "done"
            /\ UNCHANGED <<webhooks, log>>
       ELSE IF rowWrite = "ok"
       THEN /\ log' = log \o <<"sync">>
            /\ pc' = "process"
            /\ resp' = resp
            /\ UNCHANGED webhooks
       ELSE /\ log' = log \o <<"sync", "webhook_row_failed">>
            /\ resp' = 500
            /\ pc' = "done"
            /\ UNCHANGED webhooks
    /\ UNCHANGED <<secret, accessToken, tokenExpiry, now, conversations,
                   req, conv, result, nReq, call, tasks,
                   oauthVars, fileVars, indexVars>>

\* create_webhook, lines 38-42: request.json(), process_webhook_payload and
\* WebhookService.create_webhook (product sync, then the Webhook row)
StoreRawWebhook(rowWrite) ==
    /\ pc = "store_raw"
    /\ IF ~req.body.json
       THEN /\ resp' = 500
            /\ pc' = "done"
            /\ UNCHANGED <<webhooks, log>>
       ELSE IF rowWrite = "ok"
       THEN /\ webhooks' = webhooks + 1
            /\ log' = log \o <<"sync", "webhook_row">>
            /\ pc' = "process"
            /\ resp' = resp
       ELSE /\ log' = log \o <<"sync", "webhook_row_failed">>
            /\ resp' = 500
            /\ pc' = "done"
            /\ UNCHANGED webhooks
    /\ UNCHANGED <<secret, accessToken, tokenExpiry, now, conversations,
                   req, conv, result, nReq, call, tasks,
                   oauthVars, fileVars, indexVars>>

\* process_webhook, lines 113-120: parse_message and process_conversation
Converse(llm, reply, store) ==
    /\ pc = "process"
    /\ LET c == ProcessConversation(ParseMessage(req.body), llm, reply, store,
                                    Len(conversations) + 1)
           stored == \E i \in 1..Len(c.effects) : c.effects[i] = "conv_record"
       IN  /\ conv' = c
           /\ log' = log \o c.effects
           /\ conversations' =
                IF stored
                THEN StoreConversation(conversations, nReq, c.analysed)
                ELSE conversations
           /\ IF c.raised
              THEN resp' = 500 /\ pc' = "done"
              ELSE resp' = resp /\ pc' = "dispatch"
    /\ UNCHANGED <<secret, accessToken, tokenExpiry, now, webhooks,
                   req, result, nReq, call, tasks,
                   oauthVars, fileVars, indexVars>>

\* process_webhook, lines 122-161, and the JSONResponse of create_webhook
Dispatch(search, script) ==
    /\ pc = "dispatch"
    /\ LET d == DispatchAndReply(conv, accessToken, tokenExpiry, now, search, script)
       IN  /\ result' = d.result
           /\ log' = log \o d.effects
           /\ accessToken' = d.cache.tok
           /\ tokenExpiry' = d.cache.exp
           /\ resp' = IF d.result.raised THEN 500 ELSE 200
    /\ pc' = "done"
    /\ UNCHANGED <<secret, now, webhooks, conversations, req, conv, nReq, call, tasks,
                   oauthVars, fileVars, indexVars>>

\* time passes between requests
Tick ==
    /\ pc \in {"idle", "done"}
    /\ now < MaxTicks * TickHours
    /\ now' = now + TickHours
    /\ UNCHANGED <<secret, accessToken, tokenExpiry, webhooks, conversations,
                   pc, req, conv, result, resp, log, nReq, call, tasks,
                   oauthVars, fileVars, indexVars>>

\* the environment is asked only for the calls the request makes
Classifies(body) ==
    HasText(ParseMessage(body).event_type) /\ body.text \notin {None, ""}

LlmChoices == IF Classifies(req.body) THEN LlmOutcomes ELSE {CHOOSE l \in LlmOutcomes : l.raises}

ReplyChoices(llm) ==
    IF Classifies(req.body) /\ AnalyzeIntent(llm).value.kind = NORMAL_CONVERSATION
    THEN ReplyOutcomes
    ELSE {"raise"}

SearchChoices ==
    IF conv.intent.kind \in {CHECK_STOCK_LEVELS, SEARCH_PRODUCTS}
    THEN SearchOutcomes
    ELSE {NoSearch}

ScriptChoices ==
    IF conv.group_id # None
        /\ conv.intent.kind \in {CHECK_STOCK_LEVELS, SEARCH_PRODUCTS, NORMAL_CONVERSATION}
    THEN Scripts
    ELSE {NoScript}

Next ==
    \/ \E b \in Bodies : \E sig \in SignaturesFor(b) : Receive(b, sig)
    \/ Authenticate
    \/ \E rowWrite \in {"ok", "fail"} : StoreRawWebhook(rowWrite)
    \/ \E llm \in LlmChoices : \E reply \in ReplyChoices(llm) : \E store \in {"ok", "fail"} :
            Converse(llm, reply, store)
    \/ \E search \in SearchChoices : \E script \in ScriptChoices : Dispatch(search, script)
    \/ Tick

Spec == Init /\ [][Next]_vars

----------------------------------------------------------------------------
(* Direct calls of the services' methods *)

\* WebhookService.verify_signature and BaseWebhookService.verify_signature
\* called with a payload and a signature string
VerifyCall(payload, signature) ==
    /\ pc = "idle"
    /\ call' = [op |-> "verify_signature", payload |-> payload, signature |-> signature,
                out |-> VerifySignature(payload, signature),
                base |-> BaseVerifySignature(payload, signature)]
    /\ UNCHANGED <<secret, accessToken, tokenExpiry, now, webhooks, conversations,
                   pc, req, conv, result, resp, log, nReq, tasks,
                   oauthVars, fileVars, indexVars>>

\* ConversationService.analyze_intent called with a text
AnalyzeCall(llm) ==
    /\ pc = "idle"
    /\ call' = [op |-> "analyze_intent", llm |-> llm, out |-> AnalyzeIntent(llm)]
    /\ UNCHANGED <<secret, accessToken, tokenExpiry, now, webhooks, conversations,
                   pc, req, conv, result, resp, log, nReq, tasks,
                   oauthVars, fileVars, indexVars>>

\* InventoryService.handle_inventory_action called with an intent
DispatchCall(intent, search) ==
    /\ pc = "idle"
    /\ call' = [op |-> "handle_inventory_action", intent |-> intent,
                search |-> search, out |-> HandleInventoryAction(intent, search)]
    /\ UNCHANGED <<secret, accessToken, tokenExpiry, now, webhooks, conversations,
                   pc, req, conv, result, resp, log, nReq, tasks,
                   oauthVars, fileVars, indexVars>>

\* ZaloInteractionService.send_group_message called on the responder
SendCall(script) ==
    /\ pc = "idle"
    /\ LET s == SendGroupMessage(accessToken, tokenExpiry, now, script)
       IN  /\ call' = [op |-> "send_group_message", script |-> script,
                       cached |-> accessToken, at |-> now, out |-> s]
           /\ accessToken' = s.tok
           /\ tokenExpiry' = s.exp
    /\ UNCHANGED <<secret, now, webhooks, conversations,
                   pc, req, conv, result, resp, log, nReq, tasks,
                   oauthVars, fileVars, indexVars>>

\* ZaloInteractionService._get_access_token called on the responder
TokenCall(oauth) ==
    /\ pc = "idle"
    /\ LET g == GetAccessToken(accessToken, tokenExpiry, now, oauth)
       IN  /\ call' = [op |-> "get_access_token", oauth |-> oauth,
                       cached |-> accessToken, at |-> now, out |-> g]
           /\ accessToken' = g.tok
           /\ tokenExpiry' = g.exp
    /\ UNCHANGED <<secret, now, webhooks, conversations,
                   pc, req, conv, result, resp, log, nReq, tasks,
                   oauthVars, fileVars, indexVars>>

\* InventoryService._format_stock_items called with one hit
FormatCall(source) ==
    /\ pc = "idle"
    /\ call' = [op |-> "format_stock_items", source |-> source,
                quantity |-> SourceQuantity(source),
                reorder_point |-> SourceReorderPoint(source),
                status |-> StockStatus(source)]
    /\ UNCHANGED <<secret, accessToken, tokenExpiry, now, webhooks, conversations,
                   pc, req, conv, result, resp, log, nReq, tasks,
                   oauthVars, fileVars, indexVars>>

\* the price of a product search: parse_product_query, from_parsed_params
\* and build_search_query as InventoryService.search_product chains them
PriceCall(p) ==
    /\ pc = "idle"
    /\ call' = [op |-> "search_price", price |-> p,
                range |-> FromParsedParams(TransformPrice(p)),
                filter |-> BuildSearchQuery(FromParsedParams(TransformPrice(p)))]
    /\ UNCHANGED <<secret, accessToken, tokenExpiry, now, webhooks, conversations,
                   pc, req, conv, result, resp, log, nReq, tasks,
                   oauthVars, fileVars, indexVars>>

NextUnit ==
    \/ \E b \in Bodies : \E sig \in SignaturesFor(b) \ {NoSignature} : VerifyCall(b, sig)
    \/ \E llm \in LlmOutcomes : AnalyzeCall(llm)
    \/ \E intent \in JsonObjects : \E search \in SearchOutcomes : DispatchCall(intent, search)
    \/ \E script \in Scripts : SendCall(script)
    \/ \E oauth \in OAuthOutcomes : TokenCall(oauth)
    \/ \E source \in HitSources : FormatCall(source)
    \/ \E p \in PriceExprs : PriceCall(p)
    \/ Tick

SpecUnit == Init /\ [][NextUnit]_vars

----------------------------------------------------------------------------
(* Deliveries in flight together: each is one task running process_webhook, *)
(* the tasks interleave where process_webhook awaits                        *)

Tasks == {1, 2}

\* the payloads delivered together
ConcBodies == {b \in Bodies : b.json /\ b.text = "xin chao"}

ConcLlm(body) ==
    IF Classifies(body)
    THEN {l \in LlmOutcomes :
            \/ l.raises
            \/ /\ ~l.text.fence
               /\ l.text.syntax = "json"
               /\ (l.text.value.params = "map" \/ l.text.value.tag = "list")}
    ELSE {CHOOSE l \in LlmOutcomes : l.raises}

ConcReply(body, llm) ==
    IF Classifies(body) /\ AnalyzeIntent(llm).value.kind = NORMAL_CONVERSATION
    THEN ReplyOutcomes
    ELSE {"raise"}

ConcSearch(c) ==
    IF c.intent.kind \in {CHECK_STOCK_LEVELS, SEARCH_PRODUCTS}
    THEN SearchOutcomes
    ELSE {NoSearch}

ConcScript(c) ==
    IF c.group_id # None
        /\ c.intent.kind \in {CHECK_STOCK_LEVELS, SEARCH_PRODUCTS, NORMAL_CONVERSATION}
    THEN {s \in Scripts : s.send1 = 200}
    ELSE {NoScript}

\* every task has been handed its payload and none has run yet; the
\* responder's cache is empty
InitConc ==
    /\ secret = None
    /\ accessToken = None
    /\ tokenExpiry = -1
    /\ now = 0
    /\ webhooks = 0
    /\ conversations = <<>>
    /\ pc = "idle"
    /\ req = NoRequest
    /\ conv = NoConv
    /\ result = NoResult
    /\ resp = 0
    /\ log = <<>>
    /\ nReq = 0
    /\ call = NoCall
    /\ tasks \in [Tasks -> {[IdleTask EXCEPT !.pc = "process", !.body = b] : b \in ConcBodies}]
    /\ OAuthIdle
    /\ FileIdle
    /\ IndexIdle

\* process_webhook, lines 113-120, of task t
TaskConverse(t, llm, reply, store) ==
    /\ tasks[t].pc = "process"
    /\ LET c == ProcessConversation(ParseMessage(tasks[t].body), llm, reply, store,
                                    Len(conversations) + 1)
           stored == \E i \in 1..Len(c.effects) : c.effects[i] = "conv_record"
       IN  /\ conversations' =
                IF stored
                THEN StoreConversation(conversations, t, c.analysed)
                ELSE conversations
           /\ tasks' = [tasks EXCEPT ![t] =
                            [@ EXCEPT !.conv = c,
                                      !.pc = IF c.raised THEN "done" ELSE "dispatch",
                                      !.resp = IF c.raised THEN 500 ELSE 0]]
    /\ UNCHANGED <<secret, accessToken, tokenExpiry, now, webhooks,
                   pc, req, conv, result, resp, log, nReq, call,
                   oauthVars, fileVars, indexVars>>

\* process_webhook, lines 122-161, of task t
TaskDispatch(t, search, script) ==
    /\ tasks[t].pc = "dispatch"
    /\ LET d == DispatchAndReply(tasks[t].conv, accessToken, tokenExpiry, now,
                                 search, script)
       IN  /\ tasks' = [tasks EXCEPT ![t] =
                            [@ EXCEPT !.result = d.result,
                                      !.pc = "done",
                                      !.resp = IF d.result.raised THEN 500 ELSE 200]]
           /\ accessToken' = d.cache.tok
           /\ tokenExpiry' = d.cache.exp
    /\ UNCHANGED <<secret, now, webhooks, conversations,
                   pc, req, conv, result, resp, log, nReq, call,
                   oauthVars, fileVars, indexVars>>

NextConc ==
    \/ \E t \in Tasks : \E llm \in ConcLlm(tasks[t].body) :
       \E reply \in ConcReply(tasks[t].body, llm) : \E store \in {"ok", "fail"} :
            TaskConverse(t, llm, reply, store)
    \/ \E t \in Tasks : \E search \in ConcSearch(tasks[t].conv) :
       \E script \in ConcScript(tasks[t].conv) :
            TaskDispatch(t, search, script)

SpecConc == InitConc /\ [][NextConc]_vars

----------------------------------------------------------------------------
(* The parts below share no state with the webhook pipeline, which stays as *)
(* it is after construction                                                 *)

mainVars == <<secret, accessToken, tokenExpiry, now, webhooks, conversations,
              pc, req, conv, result, resp, log, nReq, tasks>>

MainIdle ==
    /\ secret = None
    /\ accessToken = None
    /\ tokenExpiry = -1
    /\ now = 0
    /\ webhooks = 0
    /\ conversations = <<>>
    /\ pc = "idle"
    /\ req = NoRequest
    /\ conv = NoConv
    /\ result = NoResult
    /\ resp = 0
    /\ log = <<>>
    /\ nReq = 0
    /\ tasks = [t \in {} |-> IdleTask]

----------------------------------------------------------------------------
(* Zalo OAuth login: routes/zalo_oauth.py *)

\* secrets.token_urlsafe(32)
StateTokens == {"s1", "s2"}

\* the query parameters of GET /callback; None is a missing parameter
CallbackStates == {None, "", "forged"} \cup StateTokens
CallbackCodes == {None, "", "c1"}
CallbackErrors == {None, "", "access_denied"}

\* ZaloService.get_access_token and get_user_profile: "raise" is a failed
\* request or, for the token, an answer without access_token
Exchanges == [token : {"raise", "A1", "A2"}, refresh : {None, "R1"}, profile : {"raise", "P1"}]

NoExchange == [token |-> "raise", refresh |-> None, profile |-> "raise"]

\* truth value of an optional str
TruthyStr(x) == x \notin {None, ""}

CallbackStatus_NoPresence(code, state, error, stored) ==
    IF TruthyStr(error) THEN 400
    ELSE IF ~TruthyStr(code) THEN 400
    ELSE IF state # stored THEN 400
    ELSE 0

\* zalo_callback, lines 36-44: the status of the HTTPException raised, 0 when
\* the request goes on to the token exchange
CallbackStatus(code, state, error, stored) ==
    IF TruthyStr(error) THEN 400
    ELSE IF ~TruthyStr(code) THEN 400
    ELSE IF ~TruthyStr(state) \/ state # stored THEN 400
    ELSE 0

InitOAuth ==
    /\ MainIdle
    /\ call = NoCall
    /\ OAuthIdle
    /\ FileIdle
    /\ IndexIdle

\* GET /login
ZaloLogin(st) ==
    /\ session' = [session EXCEPT !.oauth_state = st]
    /\ call' = [op |-> "zalo_login", state |-> st, resp |-> 307]
    /\ UNCHANGED <<mainVars, fileVars, indexVars>>

\* GET /callback
ZaloCallback(code, state, error, ex) ==
    LET rejected == CallbackStatus(code, state, error, session.oauth_state)
        exchanged == rejected = 0
        ok == exchanged /\ ex.token # "raise" /\ ex.profile # "raise"
    IN  /\ session' =
            IF ok
            THEN [session EXCEPT !.access_token = ex.token,
                                 !.refresh_token = ex.refresh,
                                 !.user_profile = ex.profile]
            ELSE session
        /\ call' = [op |-> "zalo_callback", code |-> code, state |-> state,
                    error |-> error, before |-> session, exchanged |-> exchanged,
                    resp |-> IF ~exchanged THEN rejected ELSE IF ok THEN 307 ELSE 500]
        /\ UNCHANGED <<mainVars, fileVars, indexVars>>

\* the exchange is asked for only when the callback gets that far
ExchangeChoices(code, state, error) ==
    IF CallbackStatus(code, state, error, session.oauth_state) = 0
    THEN Exchanges
    ELSE {NoExchange}

NextOAuth ==
    \/ \E st \in StateTokens : ZaloLogin(st)
    \/ \E code \in CallbackCodes : \E state \in CallbackStates :
       \E error \in CallbackErrors : \E ex \in ExchangeChoices(code, state, error) :
            ZaloCallback(code, state, error, ex)

SpecOAuth == InitOAuth /\ [][NextOAuth]_vars

----------------------------------------------------------------------------
(* EncryptedFileTokenStorage: store_tokens calls and get_tokens calls on    *)
(* one directory. A path names an inode; an open file keeps its inode when  *)
(* the path is renamed or removed.                                          *)

Writers == {1, 2, 3}

InitFile ==
    /\ MainIdle
    /\ call = NoCall
    /\ OAuthIdle
    /\ IndexIdle
    /\ disk = <<>>
    /\ file = 0
    /\ tmp = 0
    /\ writers = [w \in Writers |-> [pc |-> "start", fd |-> 0]]
    /\ seen = NoRead

\* store_tokens, line 45: open(temp_file, "wb") creates the file or
\* truncates the one that is there
OpenTemp(w) ==
    /\ writers[w].pc = "start"
    /\ IF tmp = 0
       THEN /\ disk' = Append(disk, 0)
            /\ tmp' = Len(disk) + 1
            /\ writers' = [writers EXCEPT ![w] = [pc |-> "opened", fd |-> Len(disk) + 1]]
       ELSE /\ disk' = [disk EXCEPT ![tmp] = 0]
            /\ tmp' = tmp
            /\ writers' = [writers EXCEPT ![w] = [pc |-> "opened", fd |-> tmp]]
    /\ UNCHANGED <<mainVars, call, oauthVars, indexVars, file, seen>>

\* store_tokens, line 46 and the end of the with block: the blob reaches the
\* open file
WriteTemp(w) ==
    /\ writers[w].pc = "opened"
    /\ disk' = [disk EXCEPT ![writers[w].fd] = w]
    /\ writers' = [writers EXCEPT ![w].pc = "written"]
    /\ UNCHANGED <<mainVars, call, oauthVars, indexVars, file, tmp, seen>>

\* store_tokens, line 48: os.replace(temp_file, self.file_path); without a
\* temp file it raises and the call ends in HTTPException 500
ReplaceFile(w) ==
    /\ writers[w].pc = "written"
    /\ IF tmp = 0
       THEN /\ writers' = [writers EXCEPT ![w].pc = "failed"]
            /\ UNCHANGED <<file, tmp>>
       ELSE /\ file' = tmp
            /\ tmp' = 0
            /\ writers' = [writers EXCEPT ![w].pc = "done"]
    /\ UNCHANGED <<mainVars, call, oauthVars, indexVars, disk, seen>>

\* get_tokens, lines 58-63: reads the file, if there is one
GetTokens ==
    /\ ~seen.clearing
    /\ seen' = [read |-> TRUE,
                content |-> IF file = 0 THEN -1 ELSE disk[file],
                clearing |-> file # 0 /\ disk[file] = 0]
    /\ UNCHANGED <<mainVars, call, oauthVars, indexVars, disk, file, tmp, writers>>

\* get_tokens, lines 74-76: a blob that does not decrypt makes it call
\* clear_token, which removes whatever file is there by then
ClearToken ==
    /\ seen.clearing
    /\ file' = 0
    /\ seen' = [seen EXCEPT !.clearing = FALSE]
    /\ UNCHANGED <<mainVars, call, oauthVars, indexVars, disk, tmp, writers>>

NextFile ==
    \/ \E w \in Writers : OpenTemp(w)
    \/ \E w \in Writers : WriteTemp(w)
    \/ \E w \in Writers : ReplaceFile(w)
    \/ GetTokens
    \/ ClearToken

SpecFile == InitFile /\ [][NextFile]_vars

----------------------------------------------------------------------------
(* The search index during a product sync. Every POST /webhooks runs        *)
(* sync_products_to_elasticsearch; a stock check or product search of       *)
(* another request reads the index between the sync's calls.                *)

Products == {"P1", "P2", "P3"}

\* the index holds the Item Store's products, as a finished sync leaves it
InitIndex ==
    /\ MainIdle
    /\ call = NoCall
    /\ OAuthIdle
    /\ FileIdle
    /\ items \in SUBSET Products
    /\ index = [exists |-> TRUE, docs |-> items]
    /\ syncPc = "idle"
    /\ lookup = NoLookup

\* sync_products_to_elasticsearch, lines 255-270: select(Item); without
\* items it returns an error and leaves the index alone
SyncRead ==
    /\ syncPc \in {"idle", "done"}
    /\ syncPc' = IF items = {} THEN "done" ELSE "setup"
    /\ UNCHANGED <<mainVars, call, oauthVars, fileVars, items, index, lookup>>

\* ElasticSearchService.setup_index: creates the index if there is none
SetupIndex(from, to) ==
    /\ syncPc = from
    /\ index' = IF index.exists THEN index ELSE [exists |-> TRUE, docs |-> {}]
    /\ syncPc' = to
    /\ UNCHANGED <<mainVars, call, oauthVars, fileVars, items, lookup>>

\* index_products, lines 78-80: delete the existing index
DeleteIndex ==
    /\ syncPc = "delete"
    /\ index' = [exists |-> FALSE, docs |-> {}]
    /\ syncPc' = "create"
    /\ UNCHANGED <<mainVars, call, oauthVars, fileVars, items, lookup>>

\* index_products, lines 87-91: bulk(..., refresh=True)
BulkIndex ==
    /\ syncPc = "bulk"
    /\ index' = [index EXCEPT !.docs = items]
    /\ syncPc' = "done"
    /\ UNCHANGED <<mainVars, call, oauthVars, fileVars, items, lookup>>

\* InventoryService.check_stock for one product: a missing index makes the
\* search raise, which the handler reports as status error
CheckStockLookup(product) ==
    /\ lookup' =
        IF ~index.exists
        THEN [handler |-> "check_stock", product |-> product,
              status |-> "error", message |-> "error"]
        ELSE IF product \in index.docs
        THEN [handler |-> "check_stock", product |-> product,
              status |-> "success", message |-> "items"]
        ELSE [handler |-> "check_stock", product |-> product,
              status |-> "success", message |-> "not found"]
    /\ UNCHANGED <<mainVars, call, oauthVars, fileVars, items, index, syncPc>>

\* InventoryService.search_product for one product: search_products creates
\* a missing index and returns an empty result
SearchProductLookup(product) ==
    /\ lookup' =
        IF index.exists /\ product \in index.docs
        THEN [handler |-> "search_product", product |-> product,
              status |-> "success", message |-> "items"]
        ELSE [handler |-> "search_product", product |-> product,
              status |-> "success", message |-> "not found"]
    /\ index' = IF index.exists THEN index ELSE [exists |-> TRUE, docs |-> {}]
    /\ UNCHANGED <<mainVars, call, oauthVars, fileVars, items, syncPc>>

NextIndex ==
    \/ SyncRead
    \/ SetupIndex("setup", "delete")
    \/ DeleteIndex
    \/ SetupIndex("create", "bulk")
    \/ BulkIndex
    \/ \E product \in Products : CheckStockLookup(product)
    \/ \E product \in Products : SearchProductLookup(product)

SpecIndex == InitIndex /\ [][NextIndex]_vars

----------------------------------------------------------------------------
(* Properties *)

InLog(e) == \E i \in 1..Len(log) : log[i] = e

IsSendCall == call.op = "send_group_message"

\* C1: a send_group_message call against a provider that answers the first
\* send with 401 and the second with 200, and whose OAuth endpoint hands out
\* tokens, makes exactly one refresh after the first send, exactly two
\* sends, and succeeds
C1_RetryOn401Succeeds ==
    (/\ IsSendCall
     /\ call.script.oauth1 \in Tokens
     /\ call.script.send1 = 401
     /\ call.script.oauth2 \in Tokens
     /\ call.script.send2 = 200)
        => (/\ call.out.ok
            /\ call.out.sends = <<401, 200>>
            /\ call.out.refreshes2 = 1)

AuthDecided == pc \in {"store_raw", "process", "dispatch", "done"}

NoSideEffects == log = <<>>

\* C3: with a secret configured, a request whose signature header is present
\* and differs from the HMAC of the raw body is answered 401 and has no side
\* effect
C3_BadSignatureRejected ==
    (/\ AuthDecided
     /\ secret # None
     /\ req.signature.kind # "missing"
     /\ req.signature # Hmac(secret, req.body))
        => (resp = 401 /\ NoSideEffects)

\* C4: with a secret configured, a request without signature header is
\* answered 401 and has no side effect
C4_MissingSignatureRejected ==
    (/\ AuthDecided
     /\ secret # None
     /\ req.signature.kind = "missing")
        => (resp = 401 /\ NoSideEffects)

IsVerifyCall == call.op = "verify_signature"

IsAnalyzeCall == call.op = "analyze_intent"

\* the LLM call failed or its reply, fences stripped, is not valid JSON
LlmFailed(llm) == llm.raises \/ llm.text.syntax # "json"

\* C6: whatever the LLM client does, analyze_intent returns an intent (a
\* JSON object) to its caller and does not raise
C6_ClassifierTotal ==
    IsAnalyzeCall => (~call.out.raised /\ call.out.value.tag = "obj")

\* C7: when the LLM call fails, or the reply is not valid JSON, or it parses
\* to a value that is not an object, analyze_intent returns the error-tagged
\* intent with empty parameters
C7_ErrorTaggedUnknown ==
    (IsAnalyzeCall /\ (LlmFailed(call.llm) \/ call.llm.text.value.tag # "obj"))
        => (~call.out.raised /\ call.out.value = ErrorIntent)

IsDispatchCall == call.op = "handle_inventory_action"

C10_WriteFailureStopsPipeline ==
    InLog("conv_record_failed") =>
        /\ pc = "done"
        /\ resp = 500
        /\ result = NoResult
        /\ ~InLog("handler")
        /\ ~InLog("refresh")
        /\ ~InLog("send")

C10_Witness ==
    /\ InLog("conv_record_failed")
    /\ InLog("llm_classify")
    /\ resp = 500

\* C11: whenever a reply was attempted and the send failed, the request is
\* still answered 200 with status success, response_sent false and an error
\* field, for CheckStock, SearchProducts and NormalConversation alike
C11_DeliveryErrorInBody ==
    (pc = "done" /\ result.replied /\ ~result.sent.ok)
        => (/\ resp = 200
            /\ result.status = "success"
            /\ result.response_sent = "false"
            /\ result.error)

IsBackendFailure ==
    /\ IsDispatchCall
    /\ call.out.handler \in {"check_stock", "search_product"}
    /\ call.intent.params # "notmap"
    /\ call.search.backend = "raise"
    /\ call.out.handler = "search_product" => call.search.parse = "ok"

\* C12: when the search backend call of check_stock or of search_product
\* fails, the handler returns status error with a message and does not
\* report success
C12_HandlerErrorStatus ==
    IsBackendFailure
        => (call.out.result.status = "error" /\ call.out.result.message = "error")

\* C13: every text webhook from a group whose conversation was recorded has
\* caused a send attempt to the group when the request ends, whatever the
\* intent
C13_AlwaysReplies ==
    (/\ pc = "done"
     /\ Classifies(req.body)
     /\ req.body.group # None
     /\ InLog("conv_record"))
        => (result.replied /\ (InLog("refresh") \/ InLog("send")))

\* C14: a request whose body is not JSON, once past the signature check, is
\* answered 400 and has no side effect
C14_BadJsonIs400 ==
    (pc = "done" /\ ~req.body.json /\ resp # 401)
        => (resp = 400 /\ NoSideEffects)

IsTokenCall == call.op = "get_access_token"

IsFormatCall == call.op = "format_stock_items"

C20_RefreshCachesToken ==
    (IsTokenCall /\ call.out.refreshes = 1 /\ call.oauth \in Tokens)
        => (/\ call.out.ok
            /\ call.out.token = call.oauth
            /\ accessToken = call.oauth
            /\ tokenExpiry = call.at + TokenHours)

\* the deliveries whose reply called the responder with nothing cached
Refreshers ==
    {t \in Tasks : /\ tasks[t].pc = "done"
                   /\ tasks[t].result.replied
                   /\ tasks[t].result.sent.refreshes1 = 1}

\* C15: of the deliveries in flight together that reply while no unexpired
\* token is cached, at most one issues an OAuth refresh request
C15_SingleRefresh == Cardinality(Refreshers) <= 1

\* the delivery's conversation write was committed
Recorded(t) == tasks[t].pc \in {"dispatch", "done"} /\ ~tasks[t].conv.raised

RecordsOf(t) == {i \in DOMAIN conversations : conversations[i].request = t}

\* C18: the conversation store holds exactly one record for every delivery
\* whose recording step was carried out and none for any other, and no step
\* of any delivery changes or removes a record that is already there
C18_RecordsAppendOnly ==
    /\ [](\A t \in Tasks : Cardinality(RecordsOf(t)) = IF Recorded(t) THEN 1 ELSE 0)
    /\ [][/\ Len(conversations') >= Len(conversations)
          /\ \A i \in DOMAIN conversations : conversations'[i] = conversations[i]]_vars

C18_Witness ==
    /\ \A t \in Tasks : tasks[t].pc = "done" /\ Recorded(t)
    /\ Len(conversations) = 2
    /\ conversations[1].request = 2
    /\ conversations[2].request = 1

C22_RecordBeforeHandler ==
    \A i \in DOMAIN log :
        log[i] \in {"llm_reply", "handler"}
            => \E j \in 1..(i - 1) : log[j] = "conv_record"

\* C25: a text webhook whose classification is a JSON object and whose
\* record is written is answered 200 with status success, whatever the
\* object's parameters field is, as long as no send was attempted
C25_AnyObjectCompletes ==
    (/\ pc = "done"
     /\ InLog("conv_record")
     /\ conv.analysed
     /\ conv.intent.tag = "obj"
     /\ ~result.replied)
        => (resp = 200 /\ result.status = "success")

\* C26: a webhook that is not a text event or has no message text, once its
\* raw row and its conversation record are written, is answered 200 with
\* status success; it made no LLM call, ran no handler, sent nothing, and
\* its one conversation record has no llm_analysis
C26_NonTextOnlyRecords ==
    (/\ pc = "done"
     /\ req.body.json
     /\ (req.body.event # "user_send_group_text" \/ req.body.text \in {None, ""})
     /\ InLog("webhook_row")
     /\ ~InLog("conv_record_failed"))
        => (/\ resp = 200
            /\ result.status = "success"
            /\ log = <<"sync", "webhook_row", "conv_record">>
            /\ result.handler = None
            /\ ~result.replied
            /\ Cardinality({i \in DOMAIN conversations :
                                conversations[i].request = nReq}) = 1
            /\ ~conversations[Len(conversations)].analysed)

C26_Witness ==
    /\ pc = "done"
    /\ req.body.event = "user_send_group_image"
    /\ req.body.text = "xin chao"
    /\ req.body.group = "G1"
    /\ resp = 200
    /\ log = <<"sync", "webhook_row", "conv_record">>

RowsInLog == Cardinality({i \in DOMAIN log : log[i] = "webhook_row"})

IsPriceCall == call.op = "search_price"

\* C23: every price expression of a product search ends in a price filter:
\* "<" in an upper bound only, ">" in a lower bound only, "between" in both
\* bounds, a bare number in a filter for exactly that value
C23_PriceFilter ==
    IsPriceCall =>
        LET p == call.price
            f == call.filter
        IN  /\ f.filtered
            /\ (p.shape = "dict" /\ p.operator = "<")
                    => (f.has_lte /\ f.lte = p.value /\ ~f.has_gte)
            /\ (p.shape = "dict" /\ p.operator = ">")
                    => (f.has_gte /\ f.gte = p.value /\ ~f.has_lte)
            /\ (p.shape = "dict" /\ p.operator = "between")
                    => (f.has_gte /\ f.has_lte)
            /\ p.shape = "number"
                    => (f.has_gte /\ f.gte = p.value /\ f.has_lte /\ f.lte = p.value)

IsCallback == call.op = "zalo_callback"

\* C30: the callback goes on to the token exchange only with a state that
\* is present and equal to the state a login stored in the session; with an
\* error, without a code, or with a missing or different state it answers
\* 400 and leaves the session as it was
C30_CallbackChecksState ==
    IsCallback =>
        /\ call.exchanged
            => (call.state \in StateTokens /\ call.state = call.before.oauth_state)
        /\ (\/ TruthyStr(call.error)
            \/ ~TruthyStr(call.code)
            \/ ~TruthyStr(call.state)
            \/ call.state # call.before.oauth_state)
            => (call.resp = 400 /\ ~call.exchanged /\ session = call.before)

C30_Witness ==
    /\ IsCallback
    /\ call.code = "c1"
    /\ call.error = None
    /\ call.state = "forged"
    /\ call.before.oauth_state = "s1"
    /\ call.before.access_token = "A1"
    /\ call.resp = 400
    /\ session.access_token = "A1"
    /\ session.user_profile = "P1"

\* C24: what a get_tokens call reads is no file or the complete blob of a
\* store_tokens call that has finished, whatever store_tokens calls are
\* under way
C24_ReaderSeesFinishedStore ==
    seen.read =>
        \/ seen.content = -1
        \/ \E w \in Writers : writers[w].pc = "done" /\ seen.content = w

\* C29: a stock check or product search for a product of the Item Store
\* that was in the index before the sync began never reports "not found",
\* wherever the sync stands
C29_NoFalseNotFound ==
    (lookup.handler # None /\ lookup.product \in items)
        => lookup.message # "not found"

====
